---- MODULE Spec2Model ----
(***************************************************************************)
(* A model of epsagon-cloudflare: the PromiseSettledCoordinator and the    *)
(* TraceWrapper of src/src/wrapper.js, and the Span / RequestTracer of     *)
(* src/unnamed/part_001 (lines 1-291, the module wrapper.js imports as     *)
(* './tracer'). The sub-request specification also covers the documented   *)
(* revision of Span.fetch and Span.addResponse (part_001 lines 384-463).   *)
(*                                                                         *)
(* JavaScript runs on one thread: a synchronous turn runs to its end, then *)
(* the promise reaction jobs (microtasks) run first-in first-out, and only *)
(* when none is left does a timer or an I/O completion (a macrotask) run.  *)
(* The model keeps that order: `microtasks` and `timers` are queues.       *)
(***************************************************************************)
EXTENDS Integers, Sequences, FiniteSets, TLC

\* ------------------------------------------------------------------ bounds
\* Background promises the user code may hand to event.waitUntil.
MaxBg == 2
\* Spans the user code may create in the span-tree specification.
MaxSpans == 5
\* Values of Math.random() are Draw / Draws, Draw in 0 .. Draws-1.
Draws == 2
\* Tasks handed to a bare PromiseSettledCoordinator (coordinator specification).
MaxTasks == 3

VARIABLES
    pc,             \* "handler": the listener's synchronous turn; "loop": after it
    microtasks,     \* FIFO queue of promise reaction jobs
    timers,         \* FIFO queue of setTimeout(..., 1) callbacks
    pstate,         \* promise id -> "pending" | "fulfilled" | "rejected"
    reactions,      \* promise id -> reaction jobs registered on a pending promise
    promises,       \* PromiseSettledCoordinator.promises
    allSettled,     \* PromiseSettledCoordinator.allSettled
    remaining,      \* per join (one per accepted addPromise): elements not yet settled
    finishedCalls,  \* invocations of PromiseSettledCoordinator.finished
    addCalls,       \* calls of addPromise
    addThrows,      \* addPromise calls that threw 'All promises have already been settled!'
    waitUntilUsed,  \* TraceWrapper.waitUntilUsed
    sentinel,       \* the promise of setupWaitUntil: "pending" | "resolved"
    spans,          \* the span tree: span id -> span; 1 is the RequestTracer
    respInfo,       \* what the value given to respondWith fulfilled with
    decode,         \* state of clonedResponse.json() / .text() in proxyRespondWith
    send,           \* what sendEvents / sendBatch did for this request
    userRW,         \* arguments the user code passed to event.respondWith
    hostRW,         \* arguments the host's original respondWith received
    hostWU,         \* promises the host's original waitUntil received
    wuPassed,       \* promises the user code passed to event.waitUntil
    handler,        \* "running" | "returned" | "threw"
    escaped,        \* an error left the wrapped listener
    events,         \* the result of the last parseToEvents (span-tree specification)
    hdr,            \* request headers, redact list and what was captured (header specification)
    fetches,        \* the sub-requests issued through Span.fetch (sub-request specification)
    sampling        \* policy, override and result of getSampleRate (sampling specification)

coordVars == <<promises, allSettled, remaining, finishedCalls, addCalls, addThrows>>
loopVars == <<pc, microtasks, timers, pstate, reactions>>
wrapVars == <<waitUntilUsed, sentinel, spans, respInfo, decode, send>>
ghostVars == <<userRW, hostRW, hostWU, wuPassed, handler, escaped>>
sideVars == <<hdr, fetches, sampling>>
vars == <<pc, microtasks, timers, pstate, reactions, promises, allSettled, remaining,
          finishedCalls, addCalls, addThrows, waitUntilUsed, sentinel, spans, respInfo,
          decode, send, userRW, hostRW, hostWU, wuPassed, handler, escaped, events,
          hdr, fetches, sampling>>

\* ------------------------------------------------------------ promise ids
BgIds == 1 .. MaxBg
\* The value the user code passes to respondWith (Promise.resolve(argArray[0])).
ValueId == MaxBg + 1
\* The promise proxyRespondWith creates and hands to the coordinator.
WrapperId == MaxBg + 2
\* The sentinel promise setupWaitUntil hands to the host.
SentinelId == MaxBg + 3
TaskIds == 1 .. MaxTasks
PromiseIds == 1 .. (IF MaxTasks > WrapperId THEN MaxTasks ELSE WrapperId)

Job(t, k) == [type |-> t, k |-> k]

RECURSIVE Repeat(_, _)
Repeat(x, n) == IF n = 0 THEN <<>> ELSE <<x>> \o Repeat(x, n - 1)

Range(s) == {s[i] : i \in 1 .. Len(s)}

\* ------------------------------------------------------------------ spans
Undefined == "undefined"

\* new Span(init, config): empty data, no children, timestamp set, no duration.
NewSpan(name, service) ==
    [name |-> name, service |-> service, childSpans |-> <<>>,
     starts |-> 1, finished |-> FALSE,
     hasRequest |-> FALSE, hostHeader |-> FALSE,
     hasResponse |-> FALSE, status |-> 0, body |-> Undefined,
     exception |-> FALSE, message |-> Undefined, waitUtilException |-> Undefined]

\* Span.startChildSpan: create the span and push it on the parent's childSpans.
StartChildSpan(tree, parent, name, service) ==
    LET id == Len(tree) + 1
        withChild == [tree EXCEPT ![parent].childSpans = Append(@, id)]
    IN Append(withChild, NewSpan(name, IF service = Undefined
                                         THEN tree[parent].service ELSE service))

\* The event of one span: Object.assign({}, this.data, this.eventMeta).
\* `span` is the span's position in the tree, kept to tell events apart.
EventOf(tree, s) ==
    [span |-> s, name |-> tree[s].name, service |-> tree[s].service,
     finished |-> tree[s].finished,
     hasRequest |-> tree[s].hasRequest, hostHeader |-> tree[s].hostHeader,
     hasResponse |-> tree[s].hasResponse, status |-> tree[s].status,
     body |-> tree[s].body, exception |-> tree[s].exception,
     message |-> tree[s].message]

\* Span.parseToEvents: [event, ...childSpans.map(parseToEvents).flat(1)].
RECURSIVE ParseToEvents(_, _)
RECURSIVE FlatMapChildren(_, _)
FlatMapChildren(tree, kids) ==
    IF kids = <<>> THEN <<>>
    ELSE ParseToEvents(tree, Head(kids)) \o FlatMapChildren(tree, Tail(kids))
ParseToEventsChildrenFirst(tree, s) ==
    FlatMapChildren(tree, tree[s].childSpans) \o <<EventOf(tree, s)>>
ParseToEvents(tree, s) == <<EventOf(tree, s)>> \o FlatMapChildren(tree, tree[s].childSpans)

\* --------------------------------------------------------------- sampling
\* A sample rate is a number or undefined. Numbers are kept as twice their value,
\* so that 0.5 is a value: twice = 1 is 0.5, twice = 2 is 1, twice = 4 is 2.
NoRate == [defined |-> FALSE, twice |-> 0]
Rate(twice) == [defined |-> TRUE, twice |-> twice]
RateOne == Rate(2)
Rates == {NoRate, Rate(0 - 2), Rate(0), Rate(1), RateOne, Rate(4)}

\* sampleRates as a table: the entries of the status classes and of 'exception'.
Tables == {[c2xx |-> Rate(4), c5xx |-> NoRate, exception |-> RateOne],
           [c2xx |-> Rate(0), c5xx |-> RateOne, exception |-> Rate(0)]}
NoTable == [c2xx |-> NoRate, c5xx |-> NoRate, exception |-> NoRate]
\* config.sampleRates: a function, with what it returns when called, or a table.
SampleRates ==
    {[kind |-> "function", result |-> r, table |-> NoTable] : r \in Rates} \cup
    {[kind |-> "table", result |-> NoRate, table |-> t] : t \in Tables}
\* this.sampleRate: undefined unless the user code called setSampleRate.
Overrides == {NoRate, RateOne, Rate(0)}
Statuses == {200, 500}

\* `${data.response.status.toString()[0]}xx` looked up in the table.
TableEntry(table, status) == IF status \div 100 = 2 THEN table.c2xx ELSE table.c5xx

\* sampleRates[key] || 1: an absent entry and the entry 0 are falsy.
OrOneWhenAbsent(entry) == IF ~entry.defined THEN RateOne ELSE entry
OrOne(entry) == IF ~entry.defined \/ entry.twice = 0 THEN RateOne ELSE entry

\* RequestTracer.getSampleRate(data). `override` is this.sampleRate; `sampleRates`
\* is the configured policy, a function (with the result of calling it) or a
\* table. In the table form the test
\* !data.response && !data.response.status reads .status of undefined when no
\* response was captured: a TypeError.
GetSampleRate(override, sampleRates, root) ==
    IF override.defined THEN [throws |-> FALSE, rate |-> override]
    ELSE IF sampleRates.kind = "function"
    THEN [throws |-> FALSE, rate |-> sampleRates.result]
    ELSE IF ~root.hasResponse THEN [throws |-> TRUE, rate |-> NoRate]
    ELSE [throws |-> FALSE, rate |-> OrOne(TableEntry(sampleRates.table, root.status))]

\* A tracer before its configuration is looked at: no policy, no override.
NoSampling == [stage |-> "idle", override |-> NoRate,
               policy |-> [kind |-> "function", result |-> NoRate, table |-> NoTable],
               result |-> [throws |-> FALSE, rate |-> NoRate],
               draw |-> 0, sampled |-> FALSE]

\* Math.random() < 1 / sampleRate with Math.random() = draw / Draws:
\* 1 / 0 is Infinity, 1 / undefined is NaN, 1 / negative is negative.
RandomBelowInverse(draw, rate) ==
    IF ~rate.defined THEN FALSE
    ELSE IF rate.twice = 0 THEN TRUE
    ELSE IF rate.twice < 0 THEN FALSE
    ELSE draw * rate.twice < 2 * Draws

\* sampleRate >= 1 (undefined >= 1 is false).
AtLeastOne(rate) == rate.defined /\ rate.twice >= 2

\* The test of RequestTracer.sendEvents.
SampledNoFloor(draw, rate) == RandomBelowInverse(draw, rate)
Sampled(draw, rate) == AtLeastOne(rate) /\ RandomBelowInverse(draw, rate)

\* ------------------------------------------------------------- the batch
\* The exclusion list of TraceWrapper.sendEvents.
ExcludesNothing == {}
Excludes == IF waitUntilUsed THEN {} ELSE {"waitUntil"}

\* The children of span s, and whether d lies below a in the tree.
Kids(tree, s) == Range(tree[s].childSpans)
RECURSIVE IsBelow(_, _, _)
IsBelow(tree, d, a) ==
    d \in Kids(tree, a) \/ \E c \in Kids(tree, a) : IsBelow(tree, d, c)

\* parseToEvents().filter(event => !excludeSpans.includes(event.name)).
FilterEventsWithSubtrees(evs, excludeSpans) ==
    SelectSeq(evs, LAMBDA e :
        /\ e.name \notin excludeSpans
        /\ \A a \in 1 .. Len(spans) :
              IsBelow(spans, e.span, a) => spans[a].name \notin excludeSpans)
FilterEvents(evs, excludeSpans) == SelectSeq(evs, LAMBDA e : e.name \notin excludeSpans)

\* sendBatch reads events[0].request.headers.host.replace(...) and, of every other
\* event, events[i].request.method and events[i].response.body: a TypeError when
\* the object read from is undefined. The try block catches it before the fetch.
BatchThrows(evs) ==
    \/ evs = <<>>
    \/ ~evs[1].hasRequest
    \/ ~evs[1].hostHeader
    \/ \E i \in 2 .. Len(evs) : ~evs[i].hasRequest \/ ~evs[i].hasResponse

TriggerTrace(e) == [origin |-> "trigger", name |-> "host", error_code |-> 0,
                    message |-> Undefined]
RunnerTrace(e) ==
    IF e.exception
    THEN [origin |-> "runner", name |-> "host-worker", error_code |-> 2, message |-> e.message]
    ELSE [origin |-> "runner", name |-> "host-worker", error_code |-> 0, message |-> Undefined]
HttpTrace(e) == [origin |-> "http", name |-> e.name, error_code |-> 0, message |-> Undefined]

\* traces.events of sendBatch.
BatchOf(evs) ==
    <<TriggerTrace(evs[1]), RunnerTrace(evs[1])>> \o
    [i \in 1 .. Len(evs) - 1 |-> HttpTrace(evs[i + 1])]

\* What one request's emission has done so far.
NotSent == [state |-> "idle", rate |-> NoRate, draw |-> 0, batchCalls |-> 0,
            events |-> <<>>, posts |-> 0, batch |-> <<>>]

\* What a response value fulfils with: its content type and its status.
NoResponse == [ctype |-> "none", status |-> 0]
Responses == {[ctype |-> c, status |-> st] : c \in {"json", "other"}, st \in Statuses}

\* ---------------------------------------------------------------- headers
\* A header name is a word written in some letter case. toLowerCase() gives the
\* word in lower case; two names are the same header when their words agree.
Words == {"authorization", "host", "x-id"}
Cases == {"lower", "Title"}
HeaderName(word, case) == [word |-> word, case |-> case]
ToLowerCaseIdentity(name) == name
ToLowerCase(name) == [name EXCEPT !.case = "lower"]

\* The marker convertHeaders writes in place of a redacted value.
Redacted == "REDACTED"
\* Values of headers that are to be kept out of the trace, and of the others.
Secrets == {"Bearer xyz", "Bearer abc"}
Publics == {"plain"}

Entry(key, value) == [key |-> key, value |-> value]

\* to[key] = value on a plain object, kept as its entries in insertion order: an
\* existing key keeps its place and takes the new value.
SetProperty(obj, key, value) ==
    IF \E i \in 1 .. Len(obj) : obj[i].key = key
    THEN [i \in 1 .. Len(obj) |-> IF obj[i].key = key THEN Entry(key, value) ELSE obj[i]]
    ELSE Append(obj, Entry(key, value))

\* Array.prototype.includes.
Includes(list, x) == \E i \in 1 .. Len(list) : list[i] = x

\* convertHeaders(from, redacted): for each entry, lower-case the key and store
\* 'REDACTED' if the list includes the lower-cased key, the value otherwise.
RECURSIVE ConvertInto(_, _, _)
ConvertInto(to, from, redacted) ==
    IF from = <<>> THEN to
    ELSE LET key == ToLowerCase(Head(from).key)
             value == IF Includes(redacted, key) THEN Redacted ELSE Head(from).value
         IN ConvertInto(SetProperty(to, key, value), Tail(from), redacted)
ConvertHeaders(from, redacted) == ConvertInto(<<>>, from, redacted)

\* configDefaults.redactRequestHeaders of resolve.
DefaultRedactRequestHeaders ==
    <<HeaderName("authorization", "lower"), HeaderName("cookie", "lower"),
      HeaderName("referer", "lower")>>
\* cfg.redactRequestHeaders as the user wrote it, or not given.
RedactConfigs ==
    {[given |-> FALSE, list |-> <<>>],
     [given |-> TRUE, list |-> <<>>],
     [given |-> TRUE, list |-> <<HeaderName("authorization", "lower")>>],
     [given |-> TRUE, list |-> <<HeaderName("x-id", "lower"), HeaderName("authorization", "Title")>>]}
\* resolve(cfg).redactRequestHeaders: Object.assign over the defaults, then every
\* name lower-cased.
ResolveRedact(cfg) ==
    LET list == IF cfg.given THEN cfg.list ELSE DefaultRedactRequestHeaders
    IN [i \in 1 .. Len(list) |-> ToLowerCase(list[i])]

\* The record Span.addRequest stores under data.request.
RequestJsonRaw(headers, redacted) == [headers |-> headers, method |-> "GET", url |-> "/foo"]
RequestJson(headers, redacted) ==
    [headers |-> ConvertHeaders(headers, redacted), method |-> "GET", url |-> "/foo"]

\* obj.host: the value stored under the lower-case key, or undefined.
Property(obj, word) ==
    IF \E i \in 1 .. Len(obj) : obj[i].key = HeaderName(word, "lower")
    THEN (CHOOSE e \in {obj[i] : i \in 1 .. Len(obj)} : e.key = HeaderName(word, "lower")).value
    ELSE "undefined"

\* The header content of the batch sendBatch builds from the root event and the
\* sub-request events: the trigger's name and metadata (headers, requestContext),
\* the runner's debug_events when config.debug is set, and the request_headers of
\* every http event. events[0].request.headers.host.replace(...) throws when the
\* request has no Host header, and then nothing is posted.
NoHeaderBatch == [posted |-> FALSE, triggerName |-> "undefined", triggerHeaders |-> <<>>,
                  requestContext |-> RequestJsonRaw(<<>>, <<>>), debugEvents |-> <<>>,
                  requestHeaders |-> <<>>]
HeaderBatch(rootRequest, subRequests, debug) ==
    IF Property(rootRequest.headers, "host") = "undefined" THEN NoHeaderBatch
    ELSE [posted |-> TRUE,
          triggerName |-> Property(rootRequest.headers, "host"),
          triggerHeaders |-> rootRequest.headers,
          requestContext |-> rootRequest,
          debugEvents |-> IF debug THEN <<rootRequest>> \o subRequests ELSE <<>>,
          requestHeaders |-> [i \in 1 .. Len(subRequests) |-> subRequests[i].headers]]

\* What one request puts on the wire. `forward`: the handler issues a sub-request
\* through Span.fetch that carries the headers of the incoming request.
WireBatch(headers, cfg, debug, forward) ==
    LET redacted == ResolveRedact(cfg)
        root == RequestJson(headers, redacted)
        subs == IF forward THEN <<RequestJson(headers, redacted)>> ELSE <<>>
    IN HeaderBatch(root, subs, debug)

\* No request yet.
NoHeaders == [stage |-> "idle", cfg |-> [given |-> FALSE, list |-> <<>>],
              debug |-> FALSE, forward |-> FALSE, from |-> <<>>, other |-> <<>>,
              once |-> <<>>, twice |-> <<>>, batch |-> NoHeaderBatch,
              batchOther |-> NoHeaderBatch]

\* ------------------------------------------------- promises and the job queue
Settled(p) == pstate[p] # "pending"

\* A promise settles: its reactions become jobs, in the order they were registered.
SettlePromise(p, outcome, queue) ==
    /\ pstate' = [pstate EXCEPT ![p] = outcome]
    /\ microtasks' = queue \o reactions[p]
    /\ reactions' = [reactions EXCEPT ![p] = <<>>]

\* ------------------------------------------------ PromiseSettledCoordinator
\* addPromise's guard: if (this.allSettled) throw Error(...).
AlreadySettledNever == FALSE
AlreadySettledWhenAllDone ==
    promises # <<>> /\ \A i \in 1 .. Len(promises) : Settled(promises[i])
AlreadySettled == allSettled

\* The join's test: currentLength === this.promises.length.
LengthStableAlways(currentLength) == TRUE
LengthStableOrGrown(currentLength) == currentLength <= Len(promises)
LengthStable(currentLength) == currentLength = Len(promises)

\* What an accepted addPromise(p) leaves behind: the list with p pushed, the new
\* join (Promise.allSettled over the whole list, snapshot k = the new length), whose
\* element reactions are queued at once for the promises already settled and
\* registered on the pending ones.
AddPromise(p) ==
    LET list == Append(promises, p)
        k == Len(list)
        done == {i \in 1 .. k : Settled(list[i])}
    IN [promises |-> list,
        remaining |-> Append(remaining, k),
        queued |-> Repeat(Job("elem", k), Cardinality(done)),
        registered |-> [q \in PromiseIds |->
            reactions[q] \o
            Repeat(Job("elem", k),
                   Cardinality({i \in 1 .. k : list[i] = q /\ ~Settled(q)}))]]

\* One element of join k has settled; the last one resolves the allSettled promise,
\* which queues the reaction `settled.then((results) => ...)`.
JoinElement(k, queue) ==
    /\ remaining' = [remaining EXCEPT ![k] = @ - 1]
    /\ microtasks' = IF remaining[k] = 1 THEN Append(queue, Job("joinThen", k)) ELSE queue

\* The coordinator's part of `settled.then`: set the flag and call finished.
JoinFires(k) == LengthStable(k)
JoinThenNoFlag(k) ==
    IF JoinFires(k)
    THEN finishedCalls' = finishedCalls + 1 /\ UNCHANGED allSettled
    ELSE UNCHANGED <<allSettled, finishedCalls>>
JoinThen(k) ==
    IF JoinFires(k)
    THEN allSettled' = TRUE /\ finishedCalls' = finishedCalls + 1
    ELSE UNCHANGED <<allSettled, finishedCalls>>

\* --------------------------------------- specification: a bare coordinator
\* new PromiseSettledCoordinator(finished), used by code that calls addPromise with
\* its own promises and settles them whenever it likes.
InitRest ==
    /\ pc = "loop" /\ timers = <<>>
    /\ waitUntilUsed = FALSE /\ sentinel = "pending"
    /\ spans = <<NewSpan("request", "worker")>>
    /\ respInfo = NoResponse /\ decode = "none"
    /\ send = NotSent
    /\ userRW = <<>> /\ hostRW = <<>> /\ hostWU = {} /\ wuPassed = {}
    /\ handler = "returned" /\ escaped = FALSE /\ events = <<>>
    /\ hdr = NoHeaders /\ fetches = <<>> /\ sampling = NoSampling

InitCoord ==
    /\ microtasks = <<>>
    /\ pstate = [p \in PromiseIds |-> "pending"]
    /\ reactions = [p \in PromiseIds |-> <<>>]
    /\ promises = <<>> /\ allSettled = FALSE /\ remaining = <<>>
    /\ finishedCalls = 0 /\ addCalls = 0 /\ addThrows = 0
    /\ InitRest

\* The caller calls addPromise with its next promise (pending or already settled).
CoordAddPromise ==
    /\ addCalls < MaxTasks
    /\ addCalls' = addCalls + 1
    /\ IF AlreadySettled
       THEN /\ addThrows' = addThrows + 1
            /\ UNCHANGED <<promises, remaining, microtasks, reactions>>
       ELSE LET a == AddPromise(addCalls + 1)
            IN /\ promises' = a.promises
               /\ remaining' = a.remaining
               /\ microtasks' = microtasks \o a.queued
               /\ reactions' = a.registered
               /\ UNCHANGED addThrows
    /\ UNCHANGED <<allSettled, finishedCalls, pstate, pc, timers>>
    /\ UNCHANGED <<wrapVars, ghostVars, events, sideVars>>

\* One of the caller's promises fulfils or rejects.
CoordSettle ==
    \E p \in TaskIds, outcome \in {"fulfilled", "rejected"} :
        /\ ~Settled(p)
        /\ p <= addCalls + 1
        /\ SettlePromise(p, outcome, microtasks)
        /\ UNCHANGED <<coordVars, pc, timers, wrapVars, ghostVars, events, sideVars>>

\* The next reaction job runs.
CoordRunJob ==
    /\ microtasks # <<>>
    /\ LET job == Head(microtasks)
           rest == Tail(microtasks)
       IN \/ /\ job.type = "elem"
             /\ JoinElement(job.k, rest)
             /\ UNCHANGED <<allSettled, finishedCalls>>
          \/ /\ job.type = "joinThen"
             /\ JoinThen(job.k)
             /\ microtasks' = rest
             /\ UNCHANGED remaining
    /\ UNCHANGED <<promises, addCalls, addThrows, pstate, reactions, pc, timers>>
    /\ UNCHANGED <<wrapVars, ghostVars, events, sideVars>>

NextCoord == CoordAddPromise \/ CoordSettle \/ CoordRunJob

SpecCoord == InitCoord /\ [][NextCoord]_vars

\* ------------------------------------------ specification: one traced request
\* The state when TraceWrapper's constructor calls the listener: the tracer holds
\* the request, the 'waitUntil' span exists, the sentinel promise has been handed
\* to the host's waitUntil, and both proxies are installed.
\*
\* Three inputs are read by nothing before the coordinator's callback: the
\* configured sampleRates, the rate the user code gave to setSampleRate (it only
\* stores it), and the Host header of the request. They are drawn where they are
\* read, in Callback. The host lets respondWith be called once per event.
RootSpan == [NewSpan("request", "worker") EXCEPT !.hasRequest = TRUE, !.hostHeader = TRUE]

\* Span.start() on the 'waitUntil' span (TraceWrapper.startWaitUntil).
StartWaitUntil(tree) == [tree EXCEPT ![2].starts = @ + 1]

\* TraceWrapper.setupWaitUntil: event.waitUntil(waitUntilPromise) is called while
\* event.waitUntil is still the host's function, and proxyWaitUntil installs the
\* intercept afterwards: the host receives the sentinel, the coordinator does not,
\* and startWaitUntil does not run.
SetupWaitUntilThroughProxy == [hostWU |-> {}, tracked |-> <<SentinelId>>, used |-> TRUE]
SetupWaitUntil == [hostWU |-> {SentinelId}, tracked |-> <<>>, used |-> FALSE]

Init ==
    /\ pc = "handler" /\ handler = "running"
    /\ microtasks = <<>> /\ timers = <<>>
    /\ pstate = [p \in PromiseIds |-> "pending"]
    /\ reactions = [p \in PromiseIds |-> <<>>]
    /\ promises = SetupWaitUntil.tracked /\ allSettled = FALSE
    /\ remaining = [i \in 1 .. Len(SetupWaitUntil.tracked) |-> i]
    /\ finishedCalls = 0 /\ addCalls = 0 /\ addThrows = 0
    /\ waitUntilUsed = SetupWaitUntil.used /\ sentinel = "pending"
    /\ spans = LET tree == StartChildSpan(<<RootSpan>>, 1, "waitUntil", "worker")
               IN IF SetupWaitUntil.used THEN StartWaitUntil(tree) ELSE tree
    /\ respInfo = NoResponse /\ decode = "none"
    /\ send = NotSent
    /\ userRW = <<>> /\ hostRW = <<>> /\ hostWU = SetupWaitUntil.hostWU /\ wuPassed = {}
    /\ escaped = FALSE /\ events = <<>>
    /\ hdr = NoHeaders /\ fetches = <<>> /\ sampling = NoSampling

\* The user code calls event.waitUntil(p): the apply trap of proxyWaitUntil.
\* startWaitUntil runs first; addPromise may throw, and then the reaction that
\* calls finishWaitUntil is never registered. The host's waitUntil is not called.
UserWaitUntil ==
    \E t \in BgIds :
        /\ t = Cardinality(wuPassed) + 1
        /\ wuPassed' = wuPassed \cup {t}
        /\ waitUntilUsed' = TRUE
        /\ spans' = StartWaitUntil(spans)
        /\ addCalls' = addCalls + 1
        /\ IF AlreadySettled
           THEN /\ addThrows' = addThrows + 1
                /\ UNCHANGED <<promises, remaining, microtasks, reactions>>
           ELSE LET a == AddPromise(t)
                IN /\ promises' = a.promises
                   /\ remaining' = a.remaining
                   /\ IF Settled(t)
                      THEN /\ microtasks' = microtasks \o a.queued \o <<Job("wuThen", t)>>
                           /\ reactions' = a.registered
                      ELSE /\ microtasks' = microtasks \o a.queued
                           /\ reactions' = [a.registered EXCEPT ![t] = Append(@, Job("wuThen", t))]
                   /\ UNCHANGED addThrows
        /\ UNCHANGED <<pc, timers, pstate, allSettled, finishedCalls>>
        /\ UNCHANGED <<sentinel, respInfo, decode, send>>
        /\ UNCHANGED <<userRW, hostRW, hostWU, handler, escaped, events, sideVars>>

\* What Reflect.apply(target, thisArg, argArray) hands to the host's respondWith.
ForwardedWrapper(v) == WrapperId
Forwarded(v) == v

\* The user code calls event.respondWith(v): the apply trap of proxyRespondWith.
\* The host's respondWith is called first; the executor registers its reaction on
\* the value; then addPromise(promise) may throw.
UserRespondWith ==
    /\ userRW = <<>>
    /\ userRW' = <<ValueId>>
    /\ hostRW' = Append(hostRW, Forwarded(ValueId))
    /\ addCalls' = addCalls + 1
    /\ LET valueJobs == IF Settled(ValueId) THEN <<Job("rwThen", 0)>> ELSE <<>>
           onValue == IF Settled(ValueId) THEN <<>> ELSE <<Job("rwThen", 0)>>
       IN IF AlreadySettled
          THEN /\ addThrows' = addThrows + 1
               /\ microtasks' = microtasks \o valueJobs
               /\ reactions' = [reactions EXCEPT ![ValueId] = @ \o onValue]
               /\ UNCHANGED <<promises, remaining>>
          ELSE LET a == AddPromise(WrapperId)
               IN /\ promises' = a.promises
                  /\ remaining' = a.remaining
                  /\ microtasks' = microtasks \o valueJobs \o a.queued
                  /\ reactions' = [a.registered EXCEPT ![ValueId] = @ \o onValue]
                  /\ UNCHANGED addThrows
    /\ UNCHANGED <<pc, timers, pstate, allSettled, finishedCalls>>
    /\ UNCHANGED <<wrapVars, hostWU, wuPassed, handler, escaped, events, sideVars>>

\* RequestTracer.finishResponse(undefined, error): the error is recorded as the
\* exception of the root span, and the span is finished.
FinishResponseError(tree, msg) ==
    [tree EXCEPT ![1].exception = TRUE, ![1].message = msg, ![1].finished = TRUE]

\* RequestTracer.finishResponse(response, null, body): addResponse, then finish.
FinishResponseOkUnfinished(tree, info, body) ==
    [tree EXCEPT ![1].hasResponse = TRUE, ![1].status = info.status, ![1].body = body]
FinishResponseOk(tree, info, body) ==
    [tree EXCEPT ![1].hasResponse = TRUE, ![1].status = info.status, ![1].body = body,
                 ![1].finished = TRUE]

\* The listener returns.
HandlerReturn ==
    /\ pc = "handler"
    /\ pc' = "loop" /\ handler' = "returned"
    /\ UNCHANGED <<coordVars, microtasks, timers, pstate, reactions, wrapVars>>
    /\ UNCHANGED <<userRW, hostRW, hostWU, wuPassed, escaped, events, sideVars>>

\* Whether the error the listener threw leaves setUpRespondWith: its try/catch
\* catches it, and finishResponse does not throw.
ListenerErrorEscapes == FALSE

\* The listener throws: the catch of setUpRespondWith calls finishResponse.
HandlerThrow ==
    /\ pc = "handler"
    /\ pc' = "loop" /\ handler' = "threw"
    /\ escaped' = ListenerErrorEscapes
    /\ spans' = FinishResponseError(spans, "boom")
    /\ UNCHANGED <<coordVars, microtasks, timers, pstate, reactions>>
    /\ UNCHANGED <<waitUntilUsed, sentinel, respInfo, decode, send>>
    /\ UNCHANGED <<userRW, hostRW, hostWU, wuPassed, events, sideVars>>

\* A background promise of the user code fulfils or rejects.
SettleBackground ==
    \E t \in BgIds, outcome \in {"fulfilled", "rejected"} :
        /\ ~Settled(t)
        /\ t <= Cardinality(wuPassed) + 1
        /\ SettlePromise(t, outcome, microtasks)
        /\ UNCHANGED <<coordVars, pc, timers, wrapVars, ghostVars, events, sideVars>>

\* The value given to respondWith fulfils with a response, or rejects.
SettleValue ==
    /\ ~Settled(ValueId)
    /\ \/ \E info \in Responses :
            /\ respInfo' = info
            /\ SettlePromise(ValueId, "fulfilled", microtasks)
       \/ /\ SettlePromise(ValueId, "rejected", microtasks)
          /\ UNCHANGED respInfo
    /\ UNCHANGED <<coordVars, pc, timers, ghostVars, events, sideVars>>
    /\ UNCHANGED <<waitUntilUsed, sentinel, spans, decode, send>>

\* clonedResponse.json() / .text() settles: the body is decoded, or decoding fails.
DecodeSettles ==
    \E result \in {"done", "failed"} :
        /\ pc = "loop"
        /\ decode = "pending"
        /\ decode' = result
        /\ UNCHANGED <<coordVars, loopVars, ghostVars, events, sideVars>>
        /\ UNCHANGED <<waitUntilUsed, sentinel, spans, respInfo, send>>

\* TraceWrapper.finishWaitUntil(error) with an error.
FinishWaitUntil(tree) ==
    [tree EXCEPT ![1].exception = TRUE, ![1].waitUtilException = "Error: failed",
                 ![2].exception = TRUE]

\* Whether an error thrown in the body of sendBatch (building the batch,
\* JSON.stringify, the POST) stays inside it: the try/catch around the whole body
\* logs it, so the await in RequestTracer.sendEvents resumes normally.
SendBatchCatchesNothing == FALSE
SendBatchCatches == TRUE

\* The coordinator's callback, one synchronous step: waitUntilSpan.finish(), then
\* TraceWrapper.sendEvents -> RequestTracer.sendEvents -> sendBatch up to the
\* await of the POST. `queue` is the job queue behind the running job.
\* Math.random() is called only when sampleRate >= 1 holds.
CallbackSuspends(queue) ==
    /\ spans' = [spans EXCEPT ![2].finished = TRUE]
    /\ microtasks' = Append(queue, Job("sendEvents", 0))
    /\ UNCHANGED send
Callback(queue) ==
    \E override \in Overrides, sampleRates \in SampleRates, host \in BOOLEAN,
       draw \in 0 .. Draws - 1 :
        LET tree == [spans EXCEPT ![2].finished = TRUE, ![1].hostHeader = host]
            sr == GetSampleRate(override, sampleRates, tree[1])
            evs == FilterEvents(ParseToEvents(tree, 1), Excludes)
        IN IF sr.throws
           THEN \* sendEvents rejects: the await in TraceWrapper.sendEvents throws
                /\ spans' = [spans EXCEPT ![2].finished = TRUE]
                /\ send' = [send EXCEPT !.state = "rejected"]
                /\ microtasks' = queue
           ELSE IF ~Sampled(draw, sr.rate)
           THEN /\ spans' = [spans EXCEPT ![2].finished = TRUE]
                /\ send' = [send EXCEPT !.state = "notSampled", !.rate = sr.rate,
                                        !.draw = IF AtLeastOne(sr.rate) THEN draw ELSE 0]
                /\ microtasks' = Append(queue, Job("sentinel", 0))
           ELSE IF BatchThrows(evs)
           THEN /\ spans' = tree
                /\ send' = [send EXCEPT !.state = "batchError", !.rate = sr.rate,
                                        !.draw = draw, !.events = evs,
                                        !.batchCalls = @ + 1]
                /\ microtasks' = IF SendBatchCatches
                                 THEN Append(queue, Job("sentinel", 0)) ELSE queue
           ELSE /\ spans' = tree
                /\ send' = [send EXCEPT !.state = "posting", !.rate = sr.rate,
                                        !.draw = draw, !.events = evs,
                                        !.batchCalls = @ + 1, !.posts = @ + 1,
                                        !.batch = BatchOf(evs)]
                /\ microtasks' = queue

\* The next reaction job runs.
RunJob ==
    /\ pc = "loop"
    /\ microtasks # <<>>
    /\ LET job == Head(microtasks)
           rest == Tail(microtasks)
       IN \/ /\ job.type = "elem"
             /\ JoinElement(job.k, rest)
             /\ UNCHANGED <<allSettled, finishedCalls, timers, spans, decode, send, sentinel>>
          \/ /\ job.type = "joinThen"
             /\ JoinThen(job.k)
             /\ IF JoinFires(job.k)
                THEN Callback(rest)
                ELSE microtasks' = rest /\ UNCHANGED <<spans, send>>
             /\ UNCHANGED <<remaining, timers, decode, sentinel>>
          \/ /\ job.type = "wuThen"
             \* .then(() => finishWaitUntil()): a rejection passes on to the .catch
             /\ microtasks' = IF pstate[job.k] = "rejected"
                              THEN Append(rest, Job("wuCatch", job.k)) ELSE rest
             /\ UNCHANGED <<allSettled, finishedCalls, remaining, timers, spans, decode,
                            send, sentinel>>
          \/ /\ job.type = "wuCatch"
             /\ spans' = FinishWaitUntil(spans)
             /\ microtasks' = rest
             /\ UNCHANGED <<allSettled, finishedCalls, remaining, timers, decode, send,
                            sentinel>>
          \/ /\ job.type = "rwThen"
             \* the value fulfilled: clone, start decoding, setTimeout(..., 1);
             \* it rejected: the rejection passes on to the .catch
             /\ IF pstate[ValueId] = "fulfilled"
                THEN /\ decode' = IF respInfo.ctype = "json" THEN "pending" ELSE "none"
                     /\ timers' = Append(timers, Job("rwOk", 0))
                     /\ microtasks' = rest
                ELSE /\ microtasks' = Append(rest, Job("rwCatch", 0))
                     /\ UNCHANGED <<decode, timers>>
             /\ UNCHANGED <<allSettled, finishedCalls, remaining, spans, send, sentinel>>
          \/ /\ job.type = "rwCatch"
             /\ timers' = Append(timers, Job("rwErr", 0))
             /\ microtasks' = rest
             /\ UNCHANGED <<allSettled, finishedCalls, remaining, spans, decode, send,
                            sentinel>>
          \/ /\ job.type = "sentinel"
             \* TraceWrapper.sendEvents resumes after its await: this.waitUntilResolve()
             /\ sentinel' = "resolved"
             /\ microtasks' = rest
             /\ UNCHANGED <<allSettled, finishedCalls, remaining, timers, spans, decode, send>>
    /\ UNCHANGED <<promises, addCalls, addThrows, pc, pstate, reactions>>
    /\ UNCHANGED <<waitUntilUsed, respInfo, ghostVars, events, sideVars>>

\* A setTimeout callback of proxyRespondWith runs (no reaction job is left):
\* finishResponse, then the promise handed to the coordinator settles.
FireTimer ==
    /\ pc = "loop"
    /\ microtasks = <<>>
    /\ timers # <<>>
    /\ LET job == Head(timers)
           body == IF decode = "done" THEN "decoded" ELSE Undefined
       IN \/ /\ job.type = "rwOk"
             /\ spans' = FinishResponseOk(spans, respInfo, body)
             /\ SettlePromise(WrapperId, "fulfilled", microtasks)
          \/ /\ job.type = "rwErr"
             /\ spans' = FinishResponseError(spans, "rejected")
             /\ SettlePromise(WrapperId, "rejected", microtasks)
    /\ timers' = Tail(timers)
    /\ UNCHANGED <<coordVars, pc, ghostVars, events, sideVars>>
    /\ UNCHANGED <<waitUntilUsed, sentinel, respInfo, decode, send>>

\* The POST of sendBatch settles (no reaction job is left); sendBatch logs the
\* status or the error, and the awaits above it resume.
PostSettles ==
    \E outcome \in {"posted", "postFailed"} :
        /\ pc = "loop"
        /\ microtasks = <<>>
        /\ send.state = "posting"
        /\ send' = [send EXCEPT !.state = outcome]
        /\ microtasks' = IF outcome = "posted" \/ SendBatchCatches
                         THEN <<Job("sentinel", 0)>> ELSE <<>>
        /\ UNCHANGED <<coordVars, pc, timers, pstate, reactions, ghostVars, events, sideVars>>
        /\ UNCHANGED <<waitUntilUsed, sentinel, spans, respInfo, decode>>

Next ==
    \/ UserWaitUntil
    \/ UserRespondWith
    \/ HandlerReturn
    \/ HandlerThrow
    \/ SettleBackground
    \/ SettleValue
    \/ DecodeSettles
    \/ RunJob
    \/ FireTimer
    \/ PostSettles

Spec == Init /\ [][Next]_vars

\* --------------------------------------------- specification: the span tree
\* Code holding a tracer creates child spans on any span it holds, then flattens.
InitTree == InitCoord

TreeStartChildSpan ==
    \E parent \in 1 .. Len(spans), name \in {"child", "waitUntil"},
       service \in {Undefined, "fetch"} :
        /\ Len(spans) < MaxSpans
        /\ spans' = StartChildSpan(spans, parent, name, service)
        /\ events' = <<>> /\ send' = NotSent
        /\ UNCHANGED <<coordVars, loopVars, ghostVars, sideVars>>
        /\ UNCHANGED <<waitUntilUsed, sentinel, respInfo, decode>>

TreeParseToEvents ==
    /\ events = <<>>
    /\ events' = ParseToEvents(spans, 1)
    /\ UNCHANGED <<coordVars, loopVars, wrapVars, ghostVars, sideVars>>

\* TraceWrapper.startWaitUntil: from now on nothing is excluded.
TreeStartWaitUntil ==
    /\ ~waitUntilUsed /\ send.state = "idle"
    /\ waitUntilUsed' = TRUE
    /\ UNCHANGED <<coordVars, loopVars, ghostVars, events, sideVars>>
    /\ UNCHANGED <<sentinel, spans, respInfo, decode, send>>

\* The first statement of the block of RequestTracer.sendEvents(excludes):
\* this.parseToEvents().filter(...).
TreeSendEvents ==
    /\ send.state = "idle"
    /\ events' = ParseToEvents(spans, 1)
    /\ send' = [send EXCEPT !.state = "flattened",
                            !.events = FilterEvents(ParseToEvents(spans, 1), Excludes)]
    /\ UNCHANGED <<coordVars, loopVars, ghostVars, sideVars>>
    /\ UNCHANGED <<waitUntilUsed, sentinel, spans, respInfo, decode>>

NextTree ==
    TreeStartChildSpan \/ TreeParseToEvents \/ TreeStartWaitUntil \/ TreeSendEvents

SpecTree == InitTree /\ [][NextTree]_vars

\* ------------------------------------- specification: header capture
MaxHeaders == 2

\* Whether the configuration names the header `word`, in whatever letter case.
Sensitive(cfg, word) ==
    LET list == IF cfg.given THEN cfg.list ELSE DefaultRedactRequestHeaders
    IN \E i \in 1 .. Len(list) : list[i].word = word

InitHeaders == InitCoord

\* epsagon(cfg, listener): resolve(cfg). Whether the handler forwards the incoming
\* headers on a sub-request is fixed here too.
HeadersResolve ==
    \E cfg \in RedactConfigs, debug \in BOOLEAN, forward \in BOOLEAN :
        /\ hdr.stage = "idle"
        /\ hdr' = [hdr EXCEPT !.stage = "building", !.cfg = cfg, !.debug = debug,
                              !.forward = forward]
        /\ UNCHANGED <<coordVars, loopVars, wrapVars, ghostVars, events, fetches, sampling>>

\* The incoming request carries one more header. `other` is a second request with
\* the same headers, except that a header the configuration names may carry
\* another secret.
HeadersAppend ==
    \E word \in Words, case \in Cases, value \in Secrets \cup Publics,
       otherValue \in Secrets \cup Publics :
        /\ hdr.stage = "building"
        /\ Len(hdr.from) < MaxHeaders
        /\ IF Sensitive(hdr.cfg, word)
           THEN value \in Secrets /\ otherValue \in Secrets
           ELSE value \in Publics /\ otherValue = value
        /\ hdr' = [hdr EXCEPT !.from = Append(@, Entry(HeaderName(word, case), value)),
                              !.other = Append(@, Entry(HeaderName(word, case), otherValue))]
        /\ UNCHANGED <<coordVars, loopVars, wrapVars, ghostVars, events, fetches, sampling>>

\* The request is traced and sent: addRequest converts the headers (once), the
\* converted set is converted again (twice), and sendBatch builds the batch of
\* either request.
HeadersCapture ==
    /\ hdr.stage = "building"
    /\ LET redacted == ResolveRedact(hdr.cfg)
           once == ConvertHeaders(hdr.from, redacted)
       IN hdr' = [hdr EXCEPT !.stage = "sent",
                             !.once = once,
                             !.twice = ConvertHeaders(once, redacted),
                             !.batch = WireBatch(hdr.from, hdr.cfg, hdr.debug, hdr.forward),
                             !.batchOther = WireBatch(hdr.other, hdr.cfg, hdr.debug, hdr.forward)]
    /\ UNCHANGED <<coordVars, loopVars, wrapVars, ghostVars, events, fetches, sampling>>

NextHeaders == HeadersResolve \/ HeadersAppend \/ HeadersCapture

SpecHeaders == InitHeaders /\ [][NextHeaders]_vars

\* --------------------------------------- specification: sub-requests
\* Span.fetch exists in two revisions in the repository: the one of part_001
\* lines 87-120, which decodes a clone of the response, and the documented one of
\* lines 448-463, whose addResponse (lines 384-417) decodes the response itself.
\* A sub-request records which revision served it.
MaxFetch == 2
Revisions == {"clone", "documented"}
ContentTypes == {"json", "text", "html", "other", "none"}

\* One call of Span.fetch. `returned` is the promise handed back to the caller;
\* `bodyUsed` tells whether the instrumentation has read the body of the response
\* object the caller receives; `parses` whether the body is valid JSON.
NewFetch(rev, span) ==
    [rev |-> rev, span |-> span, returned |-> "transport", transport |-> "pending",
     ctype |-> "none", parses |-> FALSE, decode |-> "none", bodyUsed |-> FALSE,
     callerSaw |-> "nothing", callerRead |-> "none"]

\* childSpan.addResponse(response, body) followed by childSpan.finish().
ChildResponded(tree, s, body) ==
    [tree EXCEPT ![s].hasResponse = TRUE, ![s].status = 200, ![s].body = body,
                 ![s].finished = TRUE]

InitFetch == InitCoord

\* The handler calls tracer.fetch(input, init): the child span is created and
\* given the request, the transport is called, the instrumentation registers its
\* reactions, and the transport's promise is returned; the caller then registers
\* its own reaction.
FetchCall ==
    \E rev \in Revisions :
        /\ Len(fetches) < MaxFetch
        /\ LET tree == StartChildSpan(spans, 1, "url", "fetch")
               s == Len(tree)
           IN /\ spans' = [tree EXCEPT ![s].hasRequest = TRUE]
              /\ fetches' = Append(fetches, NewFetch(rev, s))
        /\ UNCHANGED <<coordVars, loopVars, ghostVars, events, hdr, sampling>>
        /\ UNCHANGED <<waitUntilUsed, sentinel, respInfo, decode, send>>

\* The transport's promise settles: the reactions become jobs, the
\* instrumentation's before the caller's.
FetchSettle ==
    \E i \in 1 .. Len(fetches) :
        /\ fetches[i].transport = "pending"
        /\ \/ \E c \in ContentTypes, parses \in BOOLEAN :
                fetches' = [fetches EXCEPT ![i].transport = "fulfilled", ![i].ctype = c,
                                           ![i].parses = parses]
           \/ fetches' = [fetches EXCEPT ![i].transport = "rejected"]
        /\ microtasks' = microtasks \o <<Job("fetchThen", i), Job("callerThen", i)>>
        /\ UNCHANGED <<coordVars, pc, timers, pstate, reactions, wrapVars, ghostVars,
                       events, hdr, sampling>>

\* The .then reaction of Span.fetch on a fulfilled transport promise.
FetchThen(i) ==
    LET f == fetches[i]
    IN IF f.rev = "clone"
       THEN \* lines 94-113: json() on the clone for application/json; json() on the
            \* clone for text/plain, and otherwise addResponse and finish at once
            /\ fetches' = [fetches EXCEPT ![i].decode =
                               IF f.ctype \in {"json", "text"} THEN "pending" ELSE "none"]
            /\ spans' = IF f.ctype = "text" THEN spans
                        ELSE ChildResponded(spans, f.span, Undefined)
       ELSE \* lines 455-456: addResponse(response) decodes the response itself for
            \* json and text, stores the record at once for text/html, stores
            \* nothing for any other content type; then finish
            /\ fetches' = [fetches EXCEPT
                               ![i].decode = IF f.ctype \in {"json", "text"}
                                             THEN "pending" ELSE "none",
                               ![i].bodyUsed = f.ctype \in {"json", "text"}]
            /\ spans' = IF f.ctype = "html"
                        THEN ChildResponded(spans, f.span, Undefined)
                        ELSE [spans EXCEPT ![f.span].finished = TRUE]

\* The caller's reaction: it sees the outcome, and may read the response's body.
CallerThen(i) ==
    \E read \in BOOLEAN :
        fetches' = [fetches EXCEPT
            ![i].callerSaw = fetches[i].transport,
            ![i].callerRead = IF ~read \/ fetches[i].transport = "rejected" THEN "none"
                              ELSE IF fetches[i].bodyUsed THEN "typeError" ELSE "ok"]

\* The next reaction job runs.
FetchRunJob ==
    /\ microtasks # <<>>
    /\ LET job == Head(microtasks)
           rest == Tail(microtasks)
       IN \/ /\ job.type = "fetchThen"
             /\ IF fetches[job.k].transport = "rejected"
                THEN /\ microtasks' = Append(rest, Job("fetchCatch", job.k))
                     /\ UNCHANGED <<spans, fetches>>
                ELSE /\ microtasks' = rest
                     /\ FetchThen(job.k)
          \/ /\ job.type = "fetchCatch"
             \* childSpan.addData({ exception: reason }); childSpan.finish()
             /\ spans' = [spans EXCEPT ![fetches[job.k].span].exception = TRUE,
                                       ![fetches[job.k].span].finished = TRUE]
             /\ microtasks' = rest
             /\ UNCHANGED fetches
          \/ /\ job.type = "callerThen"
             /\ CallerThen(job.k)
             /\ microtasks' = rest
             /\ UNCHANGED spans
    /\ UNCHANGED <<coordVars, pc, timers, pstate, reactions, ghostVars, events, hdr, sampling>>
    /\ UNCHANGED <<waitUntilUsed, sentinel, respInfo, decode, send>>

\* The body decoding the instrumentation started settles. The clone revision calls
\* json() for both content types, which rejects when the body is not JSON, and on
\* success stores the response with the body and finishes the span. The documented
\* revision calls json() or text() and on success stores the response record.
FetchDecodeSettles ==
    \E i \in 1 .. Len(fetches) :
        LET f == fetches[i]
            decoded == IF f.rev = "clone" \/ f.ctype = "json" THEN f.parses ELSE TRUE
        IN /\ f.decode = "pending"
           /\ microtasks = <<>>
           /\ fetches' = [fetches EXCEPT ![i].decode = IF decoded THEN "done" ELSE "failed"]
           /\ spans' = IF ~decoded THEN spans
                       ELSE IF f.rev = "clone" THEN ChildResponded(spans, f.span, "decoded")
                       ELSE [spans EXCEPT ![f.span].hasResponse = TRUE, ![f.span].status = 200,
                                          ![f.span].body = "decoded"]
           /\ UNCHANGED <<coordVars, loopVars, ghostVars, events, hdr, sampling>>
           /\ UNCHANGED <<waitUntilUsed, sentinel, respInfo, decode, send>>

NextFetch == FetchCall \/ FetchSettle \/ FetchRunJob \/ FetchDecodeSettles

SpecFetch == InitFetch /\ [][NextFetch]_vars

\* ------------------------------------- specification: the sampling decision
\* A RequestTracer is constructed with a configured policy; the user code may call
\* setSampleRate; a response or an error may be captured on the root span; then
\* sendEvents asks getSampleRate for the rate.
InitSample == InitCoord

\* new RequestTracer(request, config): config.sampleRates is what resolve() left.
SampleConfigure ==
    \E policy \in SampleRates :
        /\ sampling.stage = "idle"
        /\ sampling' = [sampling EXCEPT !.stage = "configured", !.policy = policy]
        /\ UNCHANGED <<coordVars, loopVars, wrapVars, ghostVars, events, hdr, fetches>>

\* tracer.setSampleRate(rate) from the user code.
SampleSetSampleRate ==
    \E rate \in Overrides \ {NoRate} :
        /\ sampling.stage = "configured"
        /\ ~sampling.override.defined
        /\ sampling' = [sampling EXCEPT !.override = rate]
        /\ UNCHANGED <<coordVars, loopVars, wrapVars, ghostVars, events, hdr, fetches>>

\* finishResponse(response, null, body) or finishResponse(undefined, error).
SampleFinishResponse ==
    /\ sampling.stage = "configured"
    /\ ~spans[1].finished
    /\ \/ \E info \in Responses : spans' = FinishResponseOk(spans, info, Undefined)
       \/ spans' = FinishResponseError(spans, "rejected")
    /\ UNCHANGED <<coordVars, loopVars, ghostVars, events, sideVars>>
    /\ UNCHANGED <<waitUntilUsed, sentinel, respInfo, decode, send>>

\* The first line of RequestTracer.sendEvents: this.getSampleRate(this.data).
SampleGetSampleRate ==
    /\ sampling.stage = "configured"
    /\ sampling' = [sampling EXCEPT
                        !.stage = "asked",
                        !.result = GetSampleRate(sampling.override, sampling.policy,
                                                 spans[1])]
    /\ UNCHANGED <<coordVars, loopVars, wrapVars, ghostVars, events, hdr, fetches>>

\* The test of RequestTracer.sendEvents on the rate it was given: Math.random()
\* is called only when sampleRate >= 1 holds.
SampleDecide ==
    \E draw \in 0 .. Draws - 1 :
        /\ sampling.stage = "asked"
        /\ ~sampling.result.throws
        /\ sampling' = [sampling EXCEPT
                            !.stage = "decided",
                            !.draw = IF AtLeastOne(sampling.result.rate) THEN draw ELSE 0,
                            !.sampled = Sampled(draw, sampling.result.rate)]
        /\ UNCHANGED <<coordVars, loopVars, wrapVars, ghostVars, events, hdr, fetches>>

NextSample ==
    \/ SampleConfigure \/ SampleSetSampleRate \/ SampleFinishResponse
    \/ SampleGetSampleRate \/ SampleDecide

SpecSample == InitSample /\ [][NextSample]_vars

\* ----------------------------------------- specification: building the batch
\* A tracer holding a request with a Host header. The handler makes sub-requests
\* through fetch of any span it holds, each ending with a response or a failure,
\* or creates spans of its own with startChildSpan; the root span is finished with
\* a response or an error; then sendEvents flattens the tree and calls sendBatch.
MaxBatchSpans == 4
Paths == {"/a", "/b"}

InitBatch ==
    /\ pc = "loop" /\ handler = "returned"
    /\ microtasks = <<>> /\ timers = <<>>
    /\ pstate = [p \in PromiseIds |-> "pending"]
    /\ reactions = [p \in PromiseIds |-> <<>>]
    /\ promises = <<>> /\ allSettled = FALSE /\ remaining = <<>>
    /\ finishedCalls = 0 /\ addCalls = 0 /\ addThrows = 0
    /\ waitUntilUsed = FALSE /\ sentinel = "pending"
    /\ spans = <<RootSpan>>
    /\ respInfo = NoResponse /\ decode = "none"
    /\ send = NotSent
    /\ userRW = <<>> /\ hostRW = <<>> /\ hostWU = {} /\ wuPassed = {}
    /\ escaped = FALSE /\ events = <<>>
    /\ hdr = NoHeaders /\ fetches = <<>> /\ sampling = NoSampling

\* span.fetch(path) run to its end: the child span holds the request and then the
\* response record, or the reason of the failure.
BatchSubRequest ==
    \E parent \in 1 .. Len(spans), path \in Paths, responded \in BOOLEAN :
        /\ send.state = "idle"
        /\ Len(spans) < MaxBatchSpans
        /\ LET tree == StartChildSpan(spans, parent, path, "fetch")
               s == Len(tree)
               requested == [tree EXCEPT ![s].hasRequest = TRUE]
           IN spans' = IF responded THEN ChildResponded(requested, s, Undefined)
                       ELSE [requested EXCEPT ![s].exception = TRUE, ![s].finished = TRUE]
        /\ UNCHANGED <<coordVars, loopVars, ghostVars, events, sideVars>>
        /\ UNCHANGED <<waitUntilUsed, sentinel, respInfo, decode, send>>

\* span.startChildSpan(name) by the user code: a span without a request.
BatchStartChildSpan ==
    \E parent \in 1 .. Len(spans) :
        /\ send.state = "idle"
        /\ Len(spans) < MaxBatchSpans
        /\ spans' = StartChildSpan(spans, parent, "step", Undefined)
        /\ UNCHANGED <<coordVars, loopVars, ghostVars, events, sideVars>>
        /\ UNCHANGED <<waitUntilUsed, sentinel, respInfo, decode, send>>

\* finishResponse(response, null, body) or finishResponse(undefined, error).
BatchFinishResponse ==
    /\ send.state = "idle"
    /\ ~spans[1].finished
    /\ \/ \E info \in Responses : spans' = FinishResponseOk(spans, info, Undefined)
       \/ spans' = FinishResponseError(spans, "rejected")
    /\ UNCHANGED <<coordVars, loopVars, ghostVars, events, sideVars>>
    /\ UNCHANGED <<waitUntilUsed, sentinel, respInfo, decode, send>>

\* RequestTracer.sendEvents(excludeSpans) of a sampled request, up to the POST.
BatchSendEvents ==
    /\ send.state = "idle"
    /\ LET evs == FilterEvents(ParseToEvents(spans, 1), Excludes)
       IN send' = IF BatchThrows(evs)
                  THEN [send EXCEPT !.state = "batchError", !.events = evs,
                                    !.batchCalls = @ + 1]
                  ELSE [send EXCEPT !.state = "posting", !.events = evs,
                                    !.batchCalls = @ + 1, !.posts = @ + 1,
                                    !.batch = BatchOf(evs)]
    /\ UNCHANGED <<coordVars, loopVars, ghostVars, events, sideVars>>
    /\ UNCHANGED <<waitUntilUsed, sentinel, spans, respInfo, decode>>

NextBatch ==
    BatchSubRequest \/ BatchStartChildSpan \/ BatchFinishResponse \/ BatchSendEvents

SpecBatch == InitBatch /\ [][NextBatch]_vars

\* ================================================================== claims

\* Nothing of the request is in flight: the listener is over, no job and no timer
\* is queued, no POST is awaited, and every tracked promise has settled.
RequestDone ==
    /\ pc = "loop" /\ microtasks = <<>> /\ timers = <<>>
    /\ send.state # "posting"
    /\ \A i \in 1 .. Len(promises) : Settled(promises[i])

\* C1 (as claimed): with respondWith called, every registration accepted, a Host
\* header and effective sample rate 1, once every task has settled the batch has
\* been handed to the transport exactly once; and it is never handed over while a
\* tracked task is pending.
C1_EmittedExactlyOnce ==
    /\ send.posts >= 1 => \A i \in 1 .. Len(promises) : Settled(promises[i])
    /\ (RequestDone /\ userRW # <<>> /\ addThrows = 0 /\ spans[1].hostHeader)
        => (finishedCalls = 1 /\ (send.rate = RateOne => send.posts = 1))

\* C2 (as claimed): whenever the finished callback has fired, it has fired once
\* and every task given to addPromise so far has settled.
C2_AfterAllCalls ==
    finishedCalls >= 1 =>
        (finishedCalls = 1 /\ \A p \in 1 .. addCalls : Settled(p))

\* C2 (amended): the callback fires at most once; when it has fired, every task
\* addPromise accepted has settled; and once every accepted task has settled and
\* the reaction jobs have run, it has fired exactly once.
C2_ExactlyOnceOverAccepted ==
    /\ finishedCalls <= 1
    /\ finishedCalls = 1 => \A i \in 1 .. Len(promises) : Settled(promises[i])
    /\ (promises # <<>> /\ microtasks = <<>>
        /\ \A i \in 1 .. Len(promises) : Settled(promises[i])) => finishedCalls = 1

\* C2 witness: three tasks accepted, one of them rejected, and the callback fired.
C2_Witness ==
    /\ finishedCalls = 1 /\ Len(promises) = 3
    /\ \E i \in 1 .. 3 : pstate[promises[i]] = "rejected"

\* C3: an addPromise call made after the finished callback has fired throws, and
\* leaves the tracked list, the allSettled flag and the callback count unchanged.
C3_PostSettlementRejected ==
    [][(finishedCalls >= 1 /\ addCalls' # addCalls)
        => (addThrows' = addThrows + 1 /\ UNCHANGED <<promises, allSettled, finishedCalls>>)]_vars

\* C3 witness: a call was made after the callback fired, and it threw.
C3_Witness == finishedCalls = 1 /\ addThrows >= 1 /\ Len(promises) < addCalls

\* C4 (as claimed): the listener's error never escapes, and once the request is
\* over a trace has been sent whose runner event has error_code 2 and the error's
\* message (unless sampling decided otherwise).
C4_HandlerThrowTraced ==
    /\ ~escaped
    /\ (handler = "threw" /\ RequestDone /\ (send.state = "idle" \/ send.rate = RateOne))
        => /\ send.posts = 1
           /\ send.batch[2].error_code = 2
           /\ send.batch[2].message = "boom"

\* An error outcome of the request: the listener threw, a tracked task rejected,
\* body decoding failed, or the POST failed.
ErrorOutcome ==
    \/ handler = "threw"
    \/ \E i \in 1 .. Len(promises) : pstate[promises[i]] = "rejected"
    \/ decode = "failed"
    \/ send.state = "postFailed"

\* C5 (as claimed): after an error outcome, once everything registered has settled
\* and no job is left, the coordinator's callback has fired.
C5_CallbackNeverSkipped == (RequestDone /\ ErrorOutcome) => finishedCalls >= 1

\* C6: while the intercepted waitUntil has not been called, neither the event list
\* given to sendBatch nor the batch holds an event named 'waitUntil'.
C6_UnusedBackgroundExcluded ==
    wuPassed = {} =>
        /\ \A i \in 1 .. Len(send.events) : send.events[i].name # "waitUntil"
        /\ \A i \in 1 .. Len(send.batch) : send.batch[i].name # "waitUntil"

\* C6 witness: a batch was sent for a request that never called waitUntil.
C6_Witness == wuPassed = {} /\ send.posts = 1 /\ Len(send.events) = 1

\* C7: the host's respondWith has received exactly the arguments the user code
\* passed to event.respondWith, in order, whatever tracing did afterwards.
C7_RespondWithTransparent == hostRW = userRW

\* C7 witness: respondWith called after the coordinator had fired; addPromise
\* threw, and the host had received the value all the same.
C7_Witness == hostRW = <<ValueId>> /\ addThrows >= 1 /\ WrapperId \notin Range(promises)

\* The host keeps the execution context alive while a promise it was given through
\* its own waitUntil is pending; the sentinel is the only one it is ever given.
HostKeptAlive == \E p \in hostWU : p = SentinelId /\ sentinel = "pending"

\* C8 (as claimed): while a task the user code passed to event.waitUntil is
\* pending, the host is kept alive.
C8_HostKeptAliveForTasks == \A t \in wuPassed : ~Settled(t) => HostKeptAlive

PositionOf(evs, s) == CHOOSE i \in 1 .. Len(evs) : evs[i].span = s

\* C10: parseToEvents gives every span exactly one event, a span's event stands
\* before those of all spans below it, a child's whole subtree stands before its
\* next sibling, and the tree root[A[A1], B] flattens to [root, A, A1, B].
C10_PreOrder ==
    events # <<>> =>
        /\ Len(events) = Len(spans)
        /\ \A s \in 1 .. Len(spans) : \E i \in 1 .. Len(events) : events[i].span = s
        /\ \A a, d \in 1 .. Len(spans) :
              IsBelow(spans, d, a) => PositionOf(events, a) < PositionOf(events, d)
        /\ \A s \in 1 .. Len(spans) : \A i, j \in 1 .. Len(spans[s].childSpans) :
              i < j => \A d \in 1 .. Len(spans) :
                  (d = spans[s].childSpans[i] \/ IsBelow(spans, d, spans[s].childSpans[i]))
                      => PositionOf(events, d) < PositionOf(events, spans[s].childSpans[j])
        /\ (Len(spans) = 4 /\ spans[1].childSpans = <<2, 3>> /\ spans[2].childSpans = <<4>>)
              => [i \in 1 .. 4 |-> events[i].span] = <<1, 2, 4, 3>>

\* C10 witness: the tree root[A[A1], B] has been flattened.
C10_Witness ==
    /\ Len(events) = 4
    /\ spans[1].childSpans = <<2, 3>> /\ spans[2].childSpans = <<4>>

\* The values a header object holds.
ValuesOf(obj) == {obj[i].value : i \in 1 .. Len(obj)}

\* C11: converting a converted header set again gives the same set; and every
\* header the configuration names, in whatever letter case either name is
\* written, is stored as 'REDACTED' under its lower-case name.
C11_RedactionIdempotent ==
    hdr.stage = "sent" =>
        /\ hdr.twice = hdr.once
        /\ \A i \in 1 .. Len(hdr.from) :
              Sensitive(hdr.cfg, hdr.from[i].key.word)
                  => Property(hdr.once, hdr.from[i].key.word) = Redacted

\* C11 witness: 'Authorization' in the request and in the configured list, both
\* with a capital, converted.
C11_Witness ==
    /\ hdr.stage = "sent"
    /\ Includes(hdr.cfg.list, HeaderName("authorization", "Title"))
    /\ \E i \in 1 .. Len(hdr.from) : hdr.from[i].key = HeaderName("authorization", "Title")
    /\ Property(hdr.once, "authorization") = Redacted

\* Every header value found in a batch.
BatchValues(batch) ==
    {batch.triggerName} \cup ValuesOf(batch.triggerHeaders)
    \cup ValuesOf(batch.requestContext.headers)
    \cup UNION {ValuesOf(batch.debugEvents[i].headers) : i \in 1 .. Len(batch.debugEvents)}
    \cup UNION {ValuesOf(batch.requestHeaders[i]) : i \in 1 .. Len(batch.requestHeaders)}

\* C12: two requests that differ only in the values of headers the configuration
\* names give the same batch; the trigger's headers show 'REDACTED' for such a
\* header; and no secret value stands anywhere in the batch.
C12_RedactedNeverOnWire ==
    (hdr.stage = "sent" /\ hdr.batch.posted) =>
        /\ hdr.batchOther = hdr.batch
        /\ \A i \in 1 .. Len(hdr.from) :
              Sensitive(hdr.cfg, hdr.from[i].key.word)
                  => Property(hdr.batch.triggerHeaders, hdr.from[i].key.word) = Redacted
        /\ BatchValues(hdr.batch) \cap Secrets = {}

\* C12 witness: two requests with different Authorization values were posted, with
\* debug events and a sub-request carrying the headers.
C12_Witness ==
    /\ hdr.stage = "sent" /\ hdr.batch.posted
    /\ hdr.from # hdr.other
    /\ hdr.debug /\ hdr.forward
    /\ Property(hdr.batch.triggerHeaders, "authorization") = Redacted

\* C13 (as claimed): Span.fetch hands back the transport's own promise, the caller
\* sees the outcome the transport produced, and the response it receives is as an
\* uninstrumented call would give it: its body can still be read.
C13_FetchDropIn ==
    \A i \in 1 .. Len(fetches) :
        /\ fetches[i].returned = "transport"
        /\ fetches[i].callerSaw \in {"nothing", fetches[i].transport}
        /\ fetches[i].callerRead # "typeError"

\* C14 (as claimed): once a sub-request's transport promise has settled and the
\* jobs and the decoding it caused are over, its span is finished and holds the
\* response record or the failure reason.
C14_ChildSpanFinished ==
    \A i \in 1 .. Len(fetches) :
        (fetches[i].transport # "pending" /\ microtasks = <<>> /\ fetches[i].decode # "pending")
            => /\ spans[fetches[i].span].finished
               /\ spans[fetches[i].span].hasResponse \/ spans[fetches[i].span].exception

\* C15 (as claimed): once the batch has been handed to the transport, a call of
\* the intercepted event.waitUntil or event.respondWith does not throw.
C15_LateCallDoesNotThrow ==
    [][(send.posts >= 1 /\ addCalls' # addCalls) => addThrows' = addThrows]_vars

\* Every promise the user code handed to the event has settled.
AllPassedSettled ==
    /\ \A t \in wuPassed : Settled(t)
    /\ userRW # <<>> => Settled(ValueId)

\* C16 (as claimed): once the listener is over, everything it registered has
\* settled and no job, timer or POST is left, the sentinel has been resolved.
C16_SentinelResolved ==
    (RequestDone /\ AllPassedSettled) => sentinel = "resolved"

\* C17 (as claimed): when the span tree has been flattened for emission, every
\* rejection of a tracked background task is on the root event and on the
\* 'waitUntil' event.
C17_RejectionRecordedBeforeFlattening ==
    (send.events # <<>> /\ \E i \in 1 .. Len(promises) :
                              promises[i] \in BgIds /\ pstate[promises[i]] = "rejected")
        => /\ send.events[1].exception
           /\ \A j \in 1 .. Len(send.events) :
                 send.events[j].name = "waitUntil" => send.events[j].exception

\* C18 (as claimed): when sendBatch has been called for a request with a tracked
\* background task, the batch holds an event of the 'waitUntil' span.
C18_UsedBackgroundIncluded ==
    (send.batchCalls >= 1 /\ \E i \in 1 .. Len(promises) : promises[i] \in BgIds)
        => \E j \in 1 .. Len(send.batch) : send.batch[j].name = "waitUntil"

\* The job about to run is the `settled.then` reaction of join k.
JoinThenIsNext(k) ==
    microtasks # <<>> /\ Head(microtasks) = Job("joinThen", k)

\* C19: the flag is set and the callback invoked only by a step that runs the
\* reaction of the join whose snapshot is the present length of the list, and the
\* list does not grow afterwards, so that join is the last accepted one; a
\* reaction that runs with another snapshot changes neither; the callback is
\* never invoked twice, and once every join has completed it has been invoked.
C19_OnlyLastJoinFires ==
    [][/\ (finishedCalls' # finishedCalls \/ allSettled' # allSettled)
            => /\ JoinThenIsNext(Len(promises))
               /\ microtasks' = Tail(microtasks)
               /\ finishedCalls' = finishedCalls + 1
       /\ \A k \in 1 .. Len(remaining) :
            (JoinThenIsNext(k) /\ k # Len(promises)) => UNCHANGED <<allSettled, finishedCalls>>
       /\ finishedCalls >= 1 => Len(promises') = Len(promises)
       /\ finishedCalls' <= 1
       /\ (promises' # <<>> /\ microtasks' = <<>>
           /\ \A k \in 1 .. Len(remaining') : remaining'[k] = 0) => finishedCalls' = 1
      ]_vars

\* C19 witness: three joins have completed, and the callback was invoked once.
C19_Witness ==
    /\ Len(remaining) = 3 /\ \A k \in 1 .. 3 : remaining[k] = 0
    /\ microtasks = <<>> /\ finishedCalls = 1

\* C20: every step keeps the tracked list as a prefix of the new one; allSettled
\* holds exactly when the callback has been invoked, and it is invoked at most
\* once; with allSettled the list stays as it is and every tracked task is settled.
C20_CoordinatorInvariant ==
    [][/\ Len(promises') >= Len(promises)
       /\ SubSeq(promises', 1, Len(promises)) = promises
       /\ allSettled' <=> finishedCalls' >= 1
       /\ finishedCalls' <= 1
       /\ allSettled => (allSettled' /\ promises' = promises)
       /\ allSettled' => \A i \in 1 .. Len(promises') : pstate'[promises'[i]] # "pending"
      ]_vars

\* C20 witness: the callback was invoked with two tasks tracked, and a later
\* registration left the list as it was.
C20_Witness == allSettled /\ Len(promises) = 2 /\ addCalls = 3 /\ addThrows = 1

\* C21 (as claimed): a call of the intercepted waitUntil that is not the first of
\* the request leaves the start timestamp of the 'waitUntil' span as it is.
C21_StartedByFirstRegistrationOnly ==
    [][(wuPassed # {} /\ wuPassed' # wuPassed) => spans'[2].starts = spans[2].starts]_vars

C23_SendBatchFailureSwallowed ==
    send.state \in {"batchError", "postFailed"}
    => /\ send.batchCalls = 1
       /\ send.posts <= 1
       /\ sentinel = "resolved" \/ Job("sentinel", 0) \in Range(microtasks)

\* The POST failed and the sentinel was resolved afterwards.
C23_Witness == send.state = "postFailed" /\ send.posts = 1 /\ sentinel = "resolved"

\* C24 (as claimed): getSampleRate never throws and returns the override when one
\* was set, else what the sampling function returned, else the table's entry of
\* the response's status class, or the table's 'exception' entry when no response
\* was captured.
C24_GetSampleRateTotal ==
    sampling.stage = "asked"
    => /\ ~sampling.result.throws
       /\ sampling.result.rate =
            IF sampling.override.defined THEN sampling.override
            ELSE IF sampling.policy.kind = "function" THEN sampling.policy.result
            ELSE IF spans[1].hasResponse
            THEN TableEntry(sampling.policy.table, spans[1].status)
            ELSE sampling.policy.table.exception

\* C25 (as claimed): when a sub-request's response arrived and its body was not
\* decoded (decoding failed, or the content type is not one that is decoded), the
\* span still holds the response record, without a body.
C25_UndecodedResponseStillRecorded ==
    \A i \in 1 .. Len(fetches) :
        (/\ fetches[i].transport = "fulfilled" /\ microtasks = <<>>
         /\ fetches[i].callerSaw # "nothing"
         /\ fetches[i].decode \in {"failed", "none"})
            => /\ spans[fetches[i].span].hasResponse
               /\ spans[fetches[i].span].body = Undefined

\* C26 (as claimed): sendBatch maps a flattened list to the trigger, the runner,
\* then one 'http' event per non-root flattened event in flattened order,
\* 2 + (n - 1) in all; the trigger has error code 0; the runner has error code 2
\* and the root's message when the root event has the exception flag, else 0 and
\* no message.
C26_BatchMapping ==
    send.batchCalls = 1
    => /\ send.state = "posting"
       /\ LET evs == send.events
              batch == send.batch
          IN /\ Len(batch) = 2 + (Len(evs) - 1)
             /\ batch[1].origin = "trigger" /\ batch[1].error_code = 0
             /\ batch[2].origin = "runner"
             /\ evs[1].exception
                => batch[2].error_code = 2 /\ batch[2].message = evs[1].message
             /\ ~evs[1].exception
                => batch[2].error_code = 0 /\ batch[2].message = Undefined
             /\ \A i \in 2 .. Len(evs) :
                   /\ batch[i + 1].origin = "http"
                   /\ batch[i + 1].name = evs[i].name
                   /\ batch[i + 1].error_code = 0

\* C27: every addPromise call made during the listener's synchronous turn is
\* accepted, no callback fires within that turn, and when the callback fires every
\* promise of the coordinator's list has settled.
C27_SynchronousRegistrationsAccepted ==
    [][/\ (pc = "handler" /\ addCalls' # addCalls)
          => addThrows' = addThrows /\ Len(promises') = Len(promises) + 1
       /\ pc' = "handler" => finishedCalls' = 0 /\ ~allSettled'
       /\ finishedCalls' # finishedCalls
          => \A i \in 1 .. Len(promises') : pstate'[promises'[i]] # "pending"]_vars

\* Two waitUntil calls and the respondWith call were accepted in the listener's
\* turn, the first task having settled before it was registered.
C27_Witness ==
    /\ pc = "handler" /\ Len(promises) = MaxBg + 1 /\ addThrows = 0
    /\ Settled(promises[1]) /\ promises[Len(promises)] = WrapperId

\* C28: the sentinel is never in the coordinator's list and the host's waitUntil
\* holds it; as long as the user code registered no background task, waitUntilUsed
\* is unset and the 'waitUntil' span was never started.
C28_SentinelNeverTracked ==
    /\ SentinelId \notin Range(promises)
    /\ SentinelId \in hostWU
    /\ wuPassed = {} => ~waitUntilUsed /\ spans[2].starts = 1

\* A request without background tasks was emitted and its sentinel resolved.
C28_Witness ==
    /\ finishedCalls = 1 /\ sentinel = "resolved"
    /\ wuPassed = {} /\ ~waitUntilUsed /\ promises = <<WrapperId>>

\* C29: the step in which the callback fires finishes the 'waitUntil' span,
\* decides the sampling and, when sendBatch is called, flattens and filters the
\* tree as that step leaves it and builds the batch; no later step changes the
\* flattened list or the batch.
C29_EmittedInCallbackStep ==
    [][/\ finishedCalls' # finishedCalls
          => /\ spans'[2].finished
             /\ send'.state \in {"rejected", "notSampled", "batchError", "posting"}
             /\ send'.batchCalls # send.batchCalls
                => send'.events = FilterEvents(ParseToEvents(spans', 1), Excludes)
             /\ send'.state = "posting" => send'.batch # <<>>
       /\ send.batchCalls >= 1
          => send'.events = send.events /\ send'.batch = send.batch]_vars

\* A rejection was recorded on the spans after the tree had been flattened: the
\* flattened list does not have it.
C29_Witness ==
    /\ send.batchCalls = 1 /\ Len(send.events) = 2
    /\ spans[1].exception /\ ~send.events[1].exception
    /\ spans[2].exception /\ ~send.events[2].exception

\* C30: the list sendEvents emits holds exactly the events of the flattened tree
\* whose name is not excluded, each once and in the order of the flattened tree;
\* a span below an excluded span stays in the list unless its own name is excluded.
C30_ExclusionByNameOnly ==
    send.state = "flattened"
    => LET out == send.events
       IN /\ \A i \in 1 .. Len(events) :
                (events[i].name \notin Excludes)
                    = (\E j \in 1 .. Len(out) : out[j] = events[i])
          /\ \A j, k \in 1 .. Len(out) :
                j < k => PositionOf(events, out[j].span) < PositionOf(events, out[k].span)
          /\ \A d, a \in 1 .. Len(spans) :
                (/\ IsBelow(spans, d, a) /\ spans[a].name \in Excludes
                 /\ spans[d].name \notin Excludes)
                    => \E j \in 1 .. Len(out) : out[j].span = d

\* An unused 'waitUntil' span with a child and a later sibling: the span is
\* dropped, its child and the sibling stay, in pre-order.
C30_Witness ==
    /\ send.state = "flattened" /\ ~waitUntilUsed /\ Len(spans) = 4
    /\ spans[2].name = "waitUntil" /\ spans[2].childSpans = <<3>>
    /\ spans[3].name = "child" /\ spans[4].name = "child"
    /\ spans[1].childSpans = <<2, 4>>
    /\ Len(send.events) = 3 /\ send.events[2].span = 3 /\ send.events[3].span = 4

====
